---- MODULE Spec2Model ----
(***************************************************************************)
(* Trip coordination backend: the expense ledger with its settlement       *)
(* engine (SettlementCalculator.calculate_settlements behind the           *)
(* add_expense / settle_expenses endpoints) and the crowd-avoidance        *)
(* scorer (CrowdAvoidanceScorer.score_place / rank_places).                *)
(*                                                                         *)
(* Money is kept in fixed point.  Amounts are whole cents; a balance is a  *)
(* whole number of 1/Scale cents, where Scale is the least common multiple *)
(* of every possible split length, so that amount / len(split_between) is  *)
(* exact.  The source computes in binary floating point; the model is the  *)
(* exact-arithmetic reading of the same expressions.                       *)
(*                                                                         *)
(* Crowd scores are kept in units of 1/10000 (0.85 is 8500) and distances  *)
(* in tenths of a kilometre, which makes every product of score_place an   *)
(* integer.                                                                *)
(***************************************************************************)
EXTENDS Integers, Sequences, FiniteSets, TLC

\* ------------------------------------------------------------------ bounds
MaxExpenses == 2
MaxPlaces == 3
MaxElements == 2
MaxVotes == 3
MaxTime == 4

\* --------------------------------------------------------------- input sets
People == {"A", "B", "C", "D"}
\* the people who pay an expense
Payers == {"A", "B", "C"}
\* amounts, in cents, of the well-formed expenses a client may post
Amounts == {2, 10000}
\* ExpenseCreate.amount is any float: amounts that are not positive
BadAmounts == {0 - 2, 0}

RECURSIVE SeqsUpTo(_, _)
SeqsUpTo(S, n) ==
    IF n = 0 THEN {<<>>}
    ELSE LET shorter == SeqsUpTo(S, n - 1)
         IN  shorter \cup {Append(s, x) : s \in {t \in shorter : Len(t) = n - 1}, x \in S}

\* the non-empty split_between lists of well-formed expenses: the payer inside or
\* outside the split, two and three names, a name listed twice
SplitLists ==
    { <<"A", "B">>, <<"B", "C">>, <<"B", "B">>, <<"C", "D">>,
      <<"A", "B", "C">>, <<"C", "C", "D">> }

\* the longest split list
MaxSplit == CHOOSE n \in 1..Cardinality(People) + 1 :
                /\ \E s \in SplitLists : Len(s) = n
                /\ \A s \in SplitLists : Len(s) <= n

Expense(amount, paid_by, split_between) ==
    [amount |-> amount, paid_by |-> paid_by, split_between |-> split_between]

\* the request bodies POST /expense is tried with: every well-formed expense,
\* and expenses with a non-positive amount or an empty split list
PostedExpenses ==
    {Expense(a, p, s) : a \in Amounts, p \in Payers, s \in SplitLists}
    \cup {Expense(a, p, <<"A", "B">>) : a \in BadAmounts, p \in Payers}
    \cup {Expense(2, p, <<>>) : p \in Payers}

\* ------------------------------------------------------------- fixed point
RECURSIVE Gcd(_, _)
Gcd(a, b) == IF b = 0 THEN a ELSE Gcd(b, a % b)

RECURSIVE LcmUpTo(_)
LcmUpTo(n) == IF n <= 1 THEN 1 ELSE LET l == LcmUpTo(n - 1) IN (l * n) \div Gcd(l, n)

Scale == LcmUpTo(MaxSplit)

\* the 0.01 threshold of calculate_settlements, in cents
EPSILON_CENTS == 1
Epsilon == EPSILON_CENTS * Scale

Min(a, b) == IF a <= b THEN a ELSE b
Abs(x) == IF x < 0 THEN 0 - x ELSE x

VARIABLES
    expenses,      \* trip["expenses"]: the ledger, a sequence of expense records
    status,        \* which branch of the last endpoint call produced the response
    transfers,     \* the transfer list of the last settle response
    engineInput,   \* the expense list handed to calculate_settlements by the last settle
    engineCalled,  \* whether the last settle invoked calculate_settlements
    balances,      \* the net balances calculate_settlements computed in its step 1
    resettled,     \* whether the last settle followed a settle of the same ledger
    matching,      \* the creditor and debtor lists at the start of every iteration of
                   \* the matching loop of the last settle, and when the loop ended
    places,        \* the list object handed to rank_places (sorted in place)
    rankInput,     \* the list as it was when the last rank_places call began
    rankPerm,      \* rankPerm[i]: position in rankInput of the place now at position i
    avoidCrowds,   \* the avoid_crowds argument of the last rank_places call
    rankStatus,    \* "none", "returned" or "raised": how the last rank_places call ended
    fetched,       \* the list as the fetcher built it, before any rank_places call
    origin,        \* origin[i]: position in fetched of the place now at position i
    reranked,      \* whether the last rank_places call followed an earlier one
    scorePlace,    \* the Place object handed to score_place
    scoreBefore,   \* that object as it was when the last score_place call began
    scoreReturned, \* the value the last score_place call returned
    scoreStatus,   \* "none" or "returned"
    remote,        \* the OpenStreetMap objects around the center, in the servers' order
    placeCache,    \* PlaceFetcher.cache at the one "places:..." key: <<>> or one entry
    fetchResult,   \* the Place list the last fetch returned
    fetchSource,   \* fetchSource[i]: the remote object fetchResult[i] was built from
    fetchCall,     \* "none", "nearby" or "overpass": which fetcher ran last
    fetchCategories, \* the categories argument of the last fetch_nearby_places call
    votes,         \* trip["votes"]: per type, a dict from option to stored count
    memberVotes,   \* trip["memberVotes"]: per member, a dict from type to option
    recCache,      \* Recommender._cache: a dict from city to the suggestions stored
    recResult,     \* the suggestions the last recommend call returned
    recCity,       \* the city argument of the last recommend call
    recLimit,      \* the limit argument of the last recommend call
    recKind,       \* "none", "fresh", "cached" or "fallback": how that call answered
    now,           \* time.time(), in ticks of 150 s
    geoCache,      \* PlaceFetcher.cache at the "geocode:..." keys, by destination
    geoDest,       \* the destination argument of the last geocode_destination call
    geoReply,      \* what the search server answers to the lookup of that call
    geoRequested,  \* whether that call sent the lookup to the server
    geoResult,     \* what that call returned
    geoStatus      \* "none" or "returned"

settleVars ==
    <<expenses, status, transfers, engineInput, engineCalled, balances, resettled, matching>>
rankVars ==
    <<places, rankInput, rankPerm, avoidCrowds, rankStatus, fetched, origin, reranked>>
scoreVars == <<scorePlace, scoreBefore, scoreReturned, scoreStatus>>
fetchVars == <<remote, placeCache, fetchResult, fetchSource, fetchCall, fetchCategories>>
voteVars == <<votes, memberVotes>>
recVars == <<recCache, recResult, recCity, recLimit, recKind>>
geoVars == <<now, geoCache, geoDest, geoReply, geoRequested, geoResult, geoStatus>>
vars == <<settleVars, rankVars, scoreVars, fetchVars, voteVars, recVars, geoVars>>

\* what the ledger endpoints, and what the scorer, leave alone
outsideLedger == <<rankVars, scoreVars, fetchVars, voteVars, recVars, geoVars>>
outsideRanking == <<settleVars, scoreVars, fetchVars, voteVars, recVars, geoVars>>
outsideScoring == <<settleVars, rankVars, fetchVars, voteVars, recVars, geoVars>>
outsideFetching == <<settleVars, rankVars, scoreVars, voteVars, recVars, geoVars>>
outsideVoting == <<settleVars, rankVars, scoreVars, fetchVars, recVars, geoVars>>
outsideGeocoding == <<settleVars, rankVars, scoreVars, fetchVars, voteVars, recVars>>
\* recommend reads what the Overpass server holds and changes none of this
outsideRecommending == <<settleVars, rankVars, scoreVars, fetchVars, voteVars, geoVars>>

\* ------------------------------------------------- settlement: step 1, balances
\* balances is a defaultdict(float): a mapping that remembers insertion order.
\* It is a sequence of [person, balance] entries in insertion order.
HasKey(bals, p) == \E i \in 1..Len(bals) : bals[i].person = p

\* balances[p] += d  (a missing key starts at 0.0 and is inserted last)
Credit(bals, p, d) ==
    IF HasKey(bals, p)
    THEN [i \in 1..Len(bals) |->
            IF bals[i].person = p
            THEN [person |-> p, balance |-> bals[i].balance + d]
            ELSE bals[i]]
    ELSE Append(bals, [person |-> p, balance |-> d])

\* per-person debit that charges each distinct name of the split once
RECURSIVE DebitDistinct(_, _, _)
DebitDistinct(bals, split, share) ==
    IF split = <<>> THEN bals
    ELSE LET rest == SelectSeq(Tail(split), LAMBDA q : q # Head(split))
         IN  DebitDistinct(Credit(bals, Head(split), 0 - share), rest, share)

\* for person in split_between: balances[person] -= share
RECURSIVE DebitEach(_, _, _)
DebitEach(bals, split, share) ==
    IF split = <<>> THEN bals
    ELSE DebitEach(Credit(bals, Head(split), 0 - share), Tail(split), share)

\* share = amount / len(split_between), in 1/Scale cents
Share(e) == (e.amount * Scale) \div Len(e.split_between)

\* one iteration of the loop over expenses
ApplyExpense(bals, e) ==
    DebitEach(Credit(bals, e.paid_by, e.amount * Scale), e.split_between, Share(e))

RECURSIVE compute_balances(_)
compute_balances(exps) ==
    IF exps = <<>> THEN <<>>
    ELSE ApplyExpense(compute_balances(SubSeq(exps, 1, Len(exps) - 1)), exps[Len(exps)])

\* ---------------------------------- settlement: step 2, creditors and debtors
\* a partition without the 0.01 threshold: any non-zero balance takes part
RECURSIVE CreditorsNoThreshold(_)
CreditorsNoThreshold(bals) ==
    IF bals = <<>> THEN <<>>
    ELSE LET b == Head(bals)
         IN  IF b.balance > 0
             THEN <<[person |-> b.person, amt |-> b.balance]>> \o CreditorsNoThreshold(Tail(bals))
             ELSE CreditorsNoThreshold(Tail(bals))

RECURSIVE DebtorsNoThreshold(_)
DebtorsNoThreshold(bals) ==
    IF bals = <<>> THEN <<>>
    ELSE LET b == Head(bals)
         IN  IF b.balance < 0
             THEN <<[person |-> b.person, amt |-> 0 - b.balance]>> \o DebtorsNoThreshold(Tail(bals))
             ELSE DebtorsNoThreshold(Tail(bals))

\* a creditor test on the size of the balance, whatever its sign
RECURSIVE Creditors_by_magnitude(_)
Creditors_by_magnitude(bals) ==
    IF bals = <<>> THEN <<>>
    ELSE LET b == Head(bals)
         IN  IF Abs(b.balance) > Epsilon
             THEN <<[person |-> b.person, amt |-> Abs(b.balance)]>>
                  \o Creditors_by_magnitude(Tail(bals))
             ELSE Creditors_by_magnitude(Tail(bals))

\* for person, balance in balances.items(): balance > 0.01 / balance < -0.01
RECURSIVE Creditors(_)
Creditors(bals) ==
    IF bals = <<>> THEN <<>>
    ELSE LET b == Head(bals)
         IN  IF b.balance > Epsilon
             THEN <<[person |-> b.person, amt |-> b.balance]>> \o Creditors(Tail(bals))
             ELSE Creditors(Tail(bals))

RECURSIVE Debtors(_)
Debtors(bals) ==
    IF bals = <<>> THEN <<>>
    ELSE LET b == Head(bals)
         IN  IF b.balance > Epsilon
             THEN Debtors(Tail(bals))
             ELSE IF b.balance < 0 - Epsilon
                  THEN <<[person |-> b.person, amt |-> 0 - b.balance]>> \o Debtors(Tail(bals))
                  ELSE Debtors(Tail(bals))

\* list.sort(key=amount, reverse=True): stable, equal amounts keep their order
RECURSIVE InsertDesc(_, _)
InsertDesc(sorted, x) ==
    IF sorted = <<>> THEN <<x>>
    ELSE IF Head(sorted).amt >= x.amt
         THEN <<Head(sorted)>> \o InsertDesc(Tail(sorted), x)
         ELSE <<x>> \o sorted

RECURSIVE SortDesc(_)
SortDesc(list) ==
    IF list = <<>> THEN <<>>
    ELSE InsertDesc(SortDesc(SubSeq(list, 1, Len(list) - 1)), list[Len(list)])

\* ------------------------------------------ settlement: step 3, greedy matching
\* a matching loop that drops both heads after every transfer
RECURSIVE Greedy_pop_both(_, _, _)
Greedy_pop_both(creditors, debtors, acc) ==
    IF creditors = <<>> \/ debtors = <<>> THEN acc
    ELSE Greedy_pop_both(Tail(creditors), Tail(debtors),
             Append(acc, [from_person |-> debtors[1].person,
                          to_person   |-> creditors[1].person,
                          amount      |-> Min(creditors[1].amt, debtors[1].amt)]))

\* a matching loop that keeps a party until nothing at all is left of its amount
RECURSIVE Greedy_pop_on_zero(_, _, _)
Greedy_pop_on_zero(creditors, debtors, acc) ==
    IF creditors = <<>> \/ debtors = <<>> THEN acc
    ELSE LET transfer_amount == Min(creditors[1].amt, debtors[1].amt)
             t == [from_person |-> debtors[1].person,
                   to_person   |-> creditors[1].person,
                   amount      |-> transfer_amount]
             creditLeft == creditors[1].amt - transfer_amount
             debtLeft   == debtors[1].amt - transfer_amount
             creditors2 == IF creditLeft <= 0 THEN Tail(creditors)
                           ELSE [creditors EXCEPT ![1].amt = creditLeft]
             debtors2   == IF debtLeft <= 0 THEN Tail(debtors)
                           ELSE [debtors EXCEPT ![1].amt = debtLeft]
         IN  Greedy_pop_on_zero(creditors2, debtors2, Append(acc, t))

\* while creditors and debtors: match the two heads
RECURSIVE Greedy(_, _, _)
Greedy(creditors, debtors, acc) ==
    IF creditors = <<>> \/ debtors = <<>> THEN acc
    ELSE LET transfer_amount == Min(creditors[1].amt, debtors[1].amt)
             t == [from_person |-> debtors[1].person,
                   to_person   |-> creditors[1].person,
                   amount      |-> transfer_amount]
             creditLeft == creditors[1].amt - transfer_amount
             debtLeft   == debtors[1].amt - transfer_amount
             creditors2 == IF creditLeft < Epsilon THEN Tail(creditors)
                           ELSE [creditors EXCEPT ![1].amt = creditLeft]
             debtors2   == IF debtLeft < Epsilon THEN Tail(debtors)
                           ELSE [debtors EXCEPT ![1].amt = debtLeft]
         IN  Greedy(creditors2, debtors2, Append(acc, t))

\* the creditors and debtors lists as they stand each time the loop condition
\* `while creditors and debtors` is evaluated: one entry per iteration, then the
\* lists the loop ended with
RECURSIVE GreedyLog(_, _)
GreedyLog(creditors, debtors) ==
    IF creditors = <<>> \/ debtors = <<>>
    THEN <<[creditors |-> creditors, debtors |-> debtors]>>
    ELSE LET transfer_amount == Min(creditors[1].amt, debtors[1].amt)
             creditLeft == creditors[1].amt - transfer_amount
             debtLeft   == debtors[1].amt - transfer_amount
             creditors2 == IF creditLeft < Epsilon THEN Tail(creditors)
                           ELSE [creditors EXCEPT ![1].amt = creditLeft]
             debtors2   == IF debtLeft < Epsilon THEN Tail(debtors)
                           ELSE [debtors EXCEPT ![1].amt = debtLeft]
         IN  <<[creditors |-> creditors, debtors |-> debtors]>>
             \o GreedyLog(creditors2, debtors2)

matching_of(exps) ==
    LET bals == compute_balances(exps)
    IN  GreedyLog(SortDesc(Creditors(bals)), SortDesc(Debtors(bals)))

calculate_settlements_no_threshold(exps) ==
    LET bals == compute_balances(exps)
    IN  Greedy(SortDesc(CreditorsNoThreshold(bals)), SortDesc(DebtorsNoThreshold(bals)), <<>>)

calculate_settlements(exps) ==
    LET bals == compute_balances(exps)
    IN  Greedy(SortDesc(Creditors(bals)), SortDesc(Debtors(bals)), <<>>)

\* share = amount / len(split_between) raises ZeroDivisionError on an empty split
Raises(exps) == \E i \in 1..Len(exps) : exps[i].split_between = <<>>

\* ----------------------------------------------------------- crowd scoring
\* distances from the center, in tenths of a km (haversine results are >= 0)
Distances == {0, 50, 70}

\* Place records as the fetchers build them; crowd_score starts at its default 0.0
PlaceRecords ==
    [distance_from_center : Distances, is_chain : BOOLEAN,
     is_tourist_attraction : BOOLEAN, crowd_score : {0}]

PlaceLists == SeqsUpTo(PlaceRecords, MaxPlaces)

\* normalize_distance = 5.0 km, in tenths of a km
NORMALIZE_DISTANCE == 50
\* the penalties 0.8 and 0.7, in thousandths
ATTRACTION_PENALTY == 800
CHAIN_PENALTY == 700
\* the weights 0.4, 0.3, 0.3, in tenths
DISTANCE_WEIGHT == 4
ATTRACTION_WEIGHT == 3
CHAIN_WEIGHT == 3

\* a distance score that grows with the distance
distance_score_not_inverted(place) ==
    Min((place.distance_from_center * 1000) \div NORMALIZE_DISTANCE, 1000)

\* distance_score = 1.0 - min(distance_from_center / normalize_distance, 1.0), in thousandths
distance_score_unclamped(place) ==
    1000 - (place.distance_from_center * 1000) \div NORMALIZE_DISTANCE

distance_score(place) ==
    1000 - Min((place.distance_from_center * 1000) \div NORMALIZE_DISTANCE, 1000)

\* the value score_place computes, in units of 1/10000
crowd_score(place) ==
    distance_score(place) * DISTANCE_WEIGHT
    + (IF place.is_tourist_attraction THEN ATTRACTION_PENALTY ELSE 0) * ATTRACTION_WEIGHT
    + (IF place.is_chain THEN CHAIN_PENALTY ELSE 0) * CHAIN_WEIGHT

\* Place objects with all their fields, as a caller may construct them: the
\* dataclass lets crowd_score be given, and a scored place can be scored again
FullPlaces ==
    [name : {"Cafe X", "Louvre"}, lat : {0, 4}, lon : {0}, category : {"cafe", "museum"},
     osm_type : {"node"}, is_chain : BOOLEAN, is_tourist_attraction : BOOLEAN,
     distance_from_center : Distances, crowd_score : {0, 3000, 8500}]

\* Place(name="", lat=0.0, lon=0.0, category="") with the dataclass defaults
DefaultPlace ==
    [name |-> "", lat |-> 0, lon |-> 0, category |-> "", osm_type |-> "",
     is_chain |-> FALSE, is_tourist_attraction |-> FALSE,
     distance_from_center |-> 0, crowd_score |-> 0]

\* a score_place that adds the new score to the one already stored
score_place_accumulating(place) ==
    [place EXCEPT !.crowd_score = place.crowd_score + crowd_score(place)]

\* score_place stores the score on the place: the place after the call
score_place(place) == [place EXCEPT !.crowd_score = crowd_score(place)]

\* for place in places: score_place(place)
ScoreAll(ps) == [i \in 1..Len(ps) |-> score_place(ps[i])]

\* an insertion that puts the new element in front of the elements of equal key
RECURSIVE InsertPos_before_equals(_, _, _, _)
InsertPos_before_equals(sorted, x, ps, reverse) ==
    IF sorted = <<>> THEN <<x>>
    ELSE LET h == Head(sorted)
             stays == IF reverse THEN ps[h].crowd_score > ps[x].crowd_score
                                 ELSE ps[h].crowd_score < ps[x].crowd_score
         IN  IF stays THEN <<h>> \o InsertPos_before_equals(Tail(sorted), x, ps, reverse)
                      ELSE <<x>> \o sorted

\* list.sort(key=crowd_score, reverse=...) as a permutation of positions.  The sort
\* is stable in both directions: reverse=True also keeps equal keys in input order.
RECURSIVE InsertPos(_, _, _, _)
InsertPos(sorted, x, ps, reverse) ==
    IF sorted = <<>> THEN <<x>>
    ELSE LET h == Head(sorted)
             stays == IF reverse THEN ps[h].crowd_score >= ps[x].crowd_score
                                 ELSE ps[h].crowd_score <= ps[x].crowd_score
         IN  IF stays THEN <<h>> \o InsertPos(Tail(sorted), x, ps, reverse)
                      ELSE <<x>> \o sorted

RECURSIVE SortPrefix(_, _, _)
SortPrefix(ps, n, reverse) ==
    IF n = 0 THEN <<>>
    ELSE InsertPos(SortPrefix(ps, n - 1, reverse), n, ps, reverse)

Reverse(s) == [i \in 1..Len(s) |-> s[Len(s) + 1 - i]]

\* a descending sort obtained by reversing the ascending one: not stable
sort_perm_by_reversal(ps, reverse) ==
    IF reverse THEN Reverse(SortPrefix(ps, Len(ps), FALSE))
    ELSE SortPrefix(ps, Len(ps), FALSE)

sort_perm(ps, reverse) == SortPrefix(ps, Len(ps), reverse)

\* the branches of rank_places taken the wrong way round
rank_perm_swapped(ps, avoid_crowds) ==
    IF avoid_crowds THEN sort_perm(ScoreAll(ps), TRUE) ELSE sort_perm(ScoreAll(ps), FALSE)

\* rank_places: score every place, then sort ascending or descending
rank_perm(ps, avoid_crowds) ==
    IF avoid_crowds THEN sort_perm(ScoreAll(ps), FALSE) ELSE sort_perm(ScoreAll(ps), TRUE)

\* a rank_places that reads places[0] before looking at the length
rank_raises_on_empty(ps) == ps = <<>>

\* rank_places has no statement that raises on a list of Place objects
rank_raises(ps) == FALSE

\* ------------------------------------------------------------ place fetching
\* dict.get on a missing key
None == "None"

Tags(amenity, leisure, tourism, historic, brand) ==
    [amenity |-> amenity, leisure |-> leisure, tourism |-> tourism,
     historic |-> historic, brand |-> brand]

CafeTags == Tags("cafe", None, None, None, None)

\* tag sets of the five requested kinds, of a branded cafe, of a museum with a
\* historic tag, and two that match none of the five: a bar and a castle
OtherTagSets ==
    { Tags("restaurant", None, None, None, None),
      Tags(None, "park", None, None, None),
      Tags(None, None, "museum", None, None),
      Tags(None, None, "attraction", None, None),
      Tags("cafe", None, None, None, "Costa"),
      Tags(None, None, "museum", "yes", None),
      Tags("bar", None, None, None, None),
      Tags(None, None, None, "castle", None) }

\* coordinates are in millionths of a degree
OsmObject(name, lat, tags) == [name |-> name, lat |-> lat, lon |-> 0, tags |-> tags]

\* cafes under two spellings of one name, 0.4 and 1.2 millionths of a degree
\* apart; one object per other tag set; a cafe with a blank name; a chain cafe;
\* a cafe named "Unnamed"
OsmObjects ==
    { OsmObject(n, la, CafeTags) : n \in {"Cafe X", "CAFE X"}, la \in {0, 4, 12} }
    \cup { OsmObject("Cafe X", 0, t) : t \in OtherTagSets }
    \cup { OsmObject(" ", 0, CafeTags), OsmObject("Starbucks", 0, CafeTags),
           OsmObject("Unnamed", 0, CafeTags) }

RemoteLists == SeqsUpTo(OsmObjects, MaxElements)

\* str.lower on the names in use
Lower(name) ==
    CASE name = "Cafe X" -> "cafe x"
      [] name = "CAFE X" -> "cafe x"
      [] name = "Starbucks" -> "starbucks"
      [] name = "Costa" -> "costa"
      [] OTHER -> name

\* str.strip on the names in use
Strip(name) == IF name = " " THEN "" ELSE name

CHAIN_KEYWORDS ==
    {"starbucks", "mcdonalds", "mcdonald's", "subway", "costa", "pret", "wagamama",
     "nando", "pizza express", "prezzo", "zizzi", "pizza hut", "kfc", "burger king",
     "five guys", "chipotle", "shake shack"}

\* any(chain in place.name.lower() for chain in CHAIN_KEYWORDS): of the names in
\* use, one contains a keyword exactly when it is that keyword
name_is_chain(name) == Lower(name) \in CHAIN_KEYWORDS

DefaultCategories == <<"cafe", "restaurant", "museum", "park", "attraction">>

\* the categories arguments in use (the endpoint passes the five default ones)
CategoryLists == {DefaultCategories, <<"cafe">>}

\* the search parameter fetch_nearby_places adds for a category
CategoryKey(category) ==
    CASE category = "cafe" -> "amenity"
      [] category = "restaurant" -> "amenity"
      [] category = "museum" -> "tourism"
      [] category = "park" -> "leisure"
      [] category = "attraction" -> "tourism"

CategoryValue(category) == IF category = "park" THEN "park" ELSE category

\* the objects the search server returns for one category request
NominatimMatches(objects, category) ==
    SelectSeq(objects, LAMBDA o : o.tags[CategoryKey(category)] = CategoryValue(category))

\* the item of the JSON reply for an object: display_name is the name followed
\* by the address, lat and lon, the type, and the tourism tag where there is one
NominatimItem(o, category) ==
    [display_name |-> <<o.name, "Paris">>, lat |-> o.lat, lon |-> o.lon,
     type |-> CategoryValue(category), tourism |-> o.tags.tourism]

\* Place(...) as fetch_nearby_places builds it from one item (distance_from_center,
\* a function of the coordinates alone, is left out of these records)
NearbyPlace(item, category) ==
    [name |-> Head(item.display_name), lat |-> item.lat, lon |-> item.lon,
     category |-> category, osm_type |-> item.type,
     is_tourist_attraction |-> (item.tourism = "attraction"),
     is_chain |-> name_is_chain(Head(item.display_name)),
     crowd_score |-> 0]

\* for category in categories: for item in data: places.append(place)
RECURSIVE NearbySources(_, _)
NearbySources(objects, categories) ==
    IF categories = <<>> THEN <<>>
    ELSE LET found == NominatimMatches(objects, Head(categories))
         IN  [i \in 1..Len(found) |-> [object |-> found[i], category |-> Head(categories)]]
             \o NearbySources(objects, Tail(categories))

NearbyPlaces(objects, categories) ==
    LET sources == NearbySources(objects, categories)
    IN  [i \in 1..Len(sources) |->
            NearbyPlace(NominatimItem(sources[i].object, sources[i].category),
                        sources[i].category)]

\* a category resolution that puts unmatched tags under "other"
category_from_tags_other(tags) ==
    IF tags.amenity = "cafe" THEN "cafe"
    ELSE IF tags.amenity = "restaurant" THEN "restaurant"
    ELSE IF tags.leisure = "park" THEN "park"
    ELSE IF tags.tourism = "museum" THEN "museum"
    ELSE IF tags.tourism = "attraction" THEN "attraction"
    ELSE "other"

\* Recommender._category_from_tags
category_from_tags(tags) ==
    IF tags.amenity = "cafe" THEN "cafe"
    ELSE IF tags.amenity = "restaurant" THEN "restaurant"
    ELSE IF tags.leisure = "park" THEN "park"
    ELSE IF tags.tourism = "museum" THEN "museum"
    ELSE IF tags.tourism = "attraction" THEN "attraction"
    ELSE "place"

\* the elements _fetch_overpass_places keeps: those with a non-blank name
OverpassSources(objects) == SelectSeq(objects, LAMBDA o : Strip(o.name) # "")

\* Place(...) as _fetch_overpass_places builds it from one element
OverpassPlace(o) ==
    [name |-> Strip(o.name), lat |-> o.lat, lon |-> o.lon,
     category |-> category_from_tags(o.tags), osm_type |-> "node",
     is_tourist_attraction |-> (o.tags.tourism = "attraction"),
     is_chain |-> (o.tags.brand # None /\ Strip(Lower(o.tags.brand)) # ""),
     crowd_score |-> 0]

OverpassPlaces(objects) ==
    LET sources == OverpassSources(objects)
    IN  [i \in 1..Len(sources) |-> OverpassPlace(sources[i])]

\* ------------------------------------------------------------------ voting
Members == {"m1", "m2"}
VoteTypes == {"destination", "dates"}
\* Vote.option is any string: the empty one and two of the trip's options
Options == {"", "Lisbon", "Porto"}

\* {}
EmptyDict == [k \in {} |-> k]

\* dict.get(key, default)
Get(dict, key, default) == IF key \in DOMAIN dict THEN dict[key] ELSE default

\* dict[key] = value
Put(dict, key, value) == (key :> value) @@ dict

\* del dict[key]
Del(dict, key) == [k \in DOMAIN dict \ {key} |-> dict[k]]

\* "if prev:": None and the empty string are both false
Truthy(value) == value # None /\ value # ""

\* ------------------------------------------------------------ recommending
\* a city with a center and curated suggestions, an unknown one, a blank one
Cities == {"Paris", "Atlantis", " "}
Limits == {1, 3}

CITY_CENTERS ==
    {"London", "Paris", "Barcelona", "Amsterdam", "Rome", "Berlin", "Lisbon", "Vienna",
     "Prague", "Zurich", "Valencia", "Porto"}

Suggestion(destination, reason) == [destination |-> destination, reason |-> reason]

\* CURATED["Paris"]
CuratedParis ==
    << Suggestion("Parc des Buttes-Chaumont", "curated"),
       Suggestion("Canal Saint-Martin stroll", "curated"),
       Suggestion("Marche d'Aligre", "curated") >>

\* the generic list of _fallback
GenericFallback ==
    << Suggestion("Local neighbourhood cafe", "fallback"),
       Suggestion("Less central park", "fallback"),
       Suggestion("Independent food market", "fallback") >>

\* data[:limit] for limit >= 0
Slice(data, limit) == SubSeq(data, 1, Min(limit, Len(data)))

\* Recommender._fallback: the city's curated list if it has one (of the cities in
\* use, Paris), else the generic one
fallback(city, limit) ==
    IF city = "Paris" THEN Slice(CuratedParis, limit)
    ELSE Slice(GenericFallback, limit)

\* p.distance_from_center = _haversine_km(lat, lon, p.lat, p.lon): every object
\* in use lies within 1.2 millionths of a degree (13 cm) of the center, which in
\* tenths of a km is 0
Located(p) ==
    [name |-> p.name, lat |-> p.lat, lon |-> p.lon, category |-> p.category,
     osm_type |-> p.osm_type, is_chain |-> p.is_chain,
     is_tourist_attraction |-> p.is_tourist_attraction,
     distance_from_center |-> 0, crowd_score |-> p.crowd_score]

\* the thresholds 0.3 and 0.6 of the vibe, in units of 1/10000
HIDDEN_GEM_BELOW == 3000
LOCAL_VIBE_BELOW == 6000

Vibe(p) ==
    IF p.crowd_score < HIDDEN_GEM_BELOW THEN "Hidden gem"
    ELSE IF p.crowd_score < LOCAL_VIBE_BELOW THEN "Local vibe"
    ELSE "Still decent (but busier)"

\* "not p.name or p.name.strip() in ('', 'Unnamed')" is false
UsableName(name) == name # "" /\ Strip(name) \notin {"", "Unnamed"}

\* for p in ranked: skip unusable names, append, break once len(suggestions) >= limit
RECURSIVE Suggestions(_, _, _)
Suggestions(ranked, limit, acc) ==
    IF ranked = <<>> THEN acc
    ELSE LET p == Head(ranked)
         IN  IF ~UsableName(p.name) THEN Suggestions(Tail(ranked), limit, acc)
             ELSE LET acc2 == Append(acc, Suggestion(p.name, <<Vibe(p), p.category>>))
                  IN  IF Len(acc2) >= limit THEN acc2
                      ELSE Suggestions(Tail(ranked), limit, acc2)

\* places = _fetch_overpass_places(...); ranked = rank_places(places, avoid_crowds=True)
RankedOverpass(objects) ==
    LET found == OverpassPlaces(objects)
        located == [i \in 1..Len(found) |-> Located(found[i])]
        scored == ScoreAll(located)
        perm == rank_perm(located, TRUE)
    IN  [i \in 1..Len(scored) |-> scored[perm[i]]]

\* ---------------------------------------------------------------- geocoding
Destinations == {"Paris", "Atlantis"}

\* cache_seconds = 300, in ticks of 150 s
cache_timeout == 2

\* the server's answers: one hit, one hit with an unreadable latitude, no hit,
\* and a request that raises (timeout or HTTP error status)
Reply(raises, data) == [raises |-> raises, data |-> data]
RequestError == Reply(TRUE, <<>>)
GeocodeReplies ==
    { Reply(FALSE, <<[lat |-> "48.8566", lon |-> "2.3522"]>>),
      Reply(FALSE, <<[lat |-> "abc", lon |-> "2.3522"]>>),
      Reply(FALSE, <<>>),
      RequestError }

\* the None that geocode_destination returns, coordinates being a pair
NoCoordinates == <<>>

\* float(text) on the texts in use, in ten-thousandths; "abc" raises ValueError
ParsesAsFloat(text) == text \in {"48.8566", "2.3522"}
ParseFloat(text) ==
    CASE text = "48.8566" -> 488566
      [] text = "2.3522" -> 23522

\* the try block ends in the except clause, or data is empty
LookupFails(reply) ==
    \/ reply.raises
    \/ reply.data = <<>>
    \/ ~ParsesAsFloat(reply.data[1].lat)
    \/ ~ParsesAsFloat(reply.data[1].lon)

\* (float(data[0]['lat']), float(data[0]['lon']))
Coordinates(reply) == <<ParseFloat(reply.data[1].lat), ParseFloat(reply.data[1].lon)>>

\* an entry that never expires
entry_is_fresh_forever(cached_time, time) == TRUE

\* time.time() - cached_time < self.cache_timeout
entry_is_fresh(cached_time, time) == time - cached_time < cache_timeout

\* ------------------------------------------------------------------ actions
InitSettle ==
    /\ expenses = <<>>
    /\ status = "none"
    /\ transfers = <<>>
    /\ engineInput = <<>>
    /\ engineCalled = FALSE
    /\ balances = <<>>
    /\ resettled = FALSE
    /\ matching = <<>>

InitRankIdle ==
    /\ rankInput = <<>>
    /\ rankPerm = <<>>
    /\ avoidCrowds = FALSE
    /\ rankStatus = "none"
    /\ reranked = FALSE

InitScoreIdle ==
    /\ scoreBefore = scorePlace
    /\ scoreReturned = 0
    /\ scoreStatus = "none"

\* PlaceFetcher.__init__: self.cache = {}
InitFetchIdle ==
    /\ placeCache = <<>>
    /\ fetchResult = <<>>
    /\ fetchSource = <<>>
    /\ fetchCall = "none"
    /\ fetchCategories = <<>>

\* the list object the fetcher returns (and keeps in its cache) is the one ranked
InitFetched ==
    /\ fetched = places
    /\ origin = [i \in 1..Len(places) |-> i]

\* POST /trip/{id}/expense: appends the posted expense as it is, unvalidated
add_expense(amount, paid_by, split_between) ==
    /\ Len(expenses) < MaxExpenses
    /\ expenses' = Append(expenses, Expense(amount, paid_by, split_between))
    /\ status' = "added"
    /\ transfers' = <<>>
    /\ engineInput' = <<>>
    /\ engineCalled' = FALSE
    /\ balances' = <<>>
    /\ resettled' = FALSE
    /\ matching' = <<>>
    /\ UNCHANGED outsideLedger

\* a settle that empties the ledger once it has answered
settle_expenses_clearing ==
    /\ expenses' = <<>>
    /\ resettled' = (status \in {"no_expenses", "error", "settled"})
    /\ engineInput' = expenses
    /\ engineCalled' = (expenses # <<>>)
    /\ balances' = IF Raises(expenses) THEN <<>> ELSE compute_balances(expenses)
    /\ status' = IF expenses = <<>> THEN "no_expenses"
                 ELSE IF Raises(expenses) THEN "error" ELSE "settled"
    /\ transfers' = IF Raises(expenses) THEN <<>> ELSE calculate_settlements(expenses)
    /\ matching' = IF Raises(expenses) THEN <<>> ELSE matching_of(expenses)
    /\ UNCHANGED outsideLedger

\* GET /trip/{id}/settle (ALGORITHMS_AVAILABLE): reads the ledger, writes nothing
settle_expenses ==
    /\ expenses' = expenses
    /\ resettled' = (status \in {"no_expenses", "error", "settled"})
    /\ IF expenses = <<>>
       THEN \* "No expenses to settle": the engine is not invoked
            /\ status' = "no_expenses"
            /\ transfers' = <<>>
            /\ engineInput' = <<>>
            /\ engineCalled' = FALSE
            /\ balances' = <<>>
            /\ matching' = <<>>
       ELSE /\ engineInput' = expenses
            /\ engineCalled' = TRUE
            /\ IF Raises(expenses)
               THEN \* ZeroDivisionError, caught by the endpoint's except clause
                    /\ status' = "error"
                    /\ transfers' = <<>>
                    /\ balances' = <<>>
                    /\ matching' = <<>>
               ELSE /\ status' = "settled"
                    /\ transfers' = calculate_settlements(expenses)
                    /\ balances' = compute_balances(expenses)
                    /\ matching' = matching_of(expenses)
    /\ UNCHANGED outsideLedger

\* CrowdAvoidanceScorer.rank_places(places, avoid_crowds): scores every place, sorts
\* the list in place and returns that same list object
rank_places(avoid_crowds) ==
    /\ rankInput' = places
    /\ avoidCrowds' = avoid_crowds
    /\ IF rank_raises(places)
       THEN /\ rankStatus' = "raised"
            /\ rankPerm' = <<>>
            /\ places' = places
            /\ origin' = origin
       ELSE LET scored == ScoreAll(places)
                perm == rank_perm(places, avoid_crowds)
            IN  /\ rankStatus' = "returned"
                /\ rankPerm' = perm
                /\ places' = [i \in 1..Len(scored) |-> scored[perm[i]]]
                /\ origin' = [i \in 1..Len(scored) |-> origin[perm[i]]]
    /\ reranked' = (rankStatus # "none")
    /\ fetched' = fetched
    /\ UNCHANGED outsideRanking

\* CrowdAvoidanceScorer.score_place(place): computes the score, stores it on the
\* place and returns it
score_place_call ==
    /\ scoreBefore' = scorePlace
    /\ scorePlace' = score_place(scorePlace)
    /\ scoreReturned' = crowd_score(scorePlace)
    /\ scoreStatus' = "returned"
    /\ UNCHANGED outsideScoring

\* PlaceFetcher.fetch_nearby_places(lat, lon, radius_km, categories) for the one
\* center and radius in use; expired: the cached entry is older than cache_timeout
fetch_nearby_places(categories, expired) ==
    /\ fetchCall' = "nearby"
    /\ fetchCategories' = categories
    /\ IF placeCache # <<>> /\ ~expired
       THEN /\ fetchResult' = placeCache[1].places
            /\ fetchSource' = placeCache[1].sources
            /\ placeCache' = placeCache
       ELSE LET sources == NearbySources(remote, categories)
                built == NearbyPlaces(remote, categories)
            IN  /\ fetchResult' = built
                /\ fetchSource' = [i \in 1..Len(sources) |-> sources[i].object]
                /\ placeCache' =
                       <<[places |-> built,
                          sources |-> [i \in 1..Len(sources) |-> sources[i].object]]>>
    /\ remote' = remote
    /\ UNCHANGED outsideFetching

\* Recommender._fetch_overpass_places(lat, lon): the reply's elements are taken
\* as they come, whatever their tags
fetch_overpass_places ==
    /\ fetchCall' = "overpass"
    /\ fetchResult' = OverpassPlaces(remote)
    /\ fetchSource' = OverpassSources(remote)
    /\ UNCHANGED <<remote, placeCache, fetchCategories>>
    /\ UNCHANGED outsideFetching

FetchNearbyPlaces ==
    \E categories \in CategoryLists, expired \in BOOLEAN :
        fetch_nearby_places(categories, expired)

\* POST /trip/{id}/vote: takes back the member's previous vote of that type, if
\* any, then registers the new one (counts are capped at MaxVotes)
vote(member_id, type_, option) ==
    /\ Get(votes[type_], option, 0) < MaxVotes
    /\ LET started == IF member_id \in DOMAIN memberVotes THEN memberVotes
                      ELSE Put(memberVotes, member_id, EmptyDict)
           prev == Get(started[member_id], type_, None)
       IN  IF Truthy(prev) /\ prev \notin DOMAIN votes[type_]
           THEN \* votes[type_][prev] raises KeyError after the setdefault
                /\ memberVotes' = started
                /\ votes' = votes
           ELSE LET taken_back ==
                        IF Truthy(prev)
                        THEN IF votes[type_][prev] - 1 <= 0
                             THEN [votes EXCEPT ![type_] = Del(@, prev)]
                             ELSE [votes EXCEPT ![type_][prev] = @ - 1]
                        ELSE votes
                IN  /\ memberVotes' = [started EXCEPT ![member_id] = Put(@, type_, option)]
                    /\ votes' = [taken_back EXCEPT
                                     ![type_] = Put(@, option, Get(@, option, 0) + 1)]
    /\ UNCHANGED outsideVoting

CastVote ==
    \E member_id \in Members, type_ \in VoteTypes, option \in Options :
        vote(member_id, type_, option)

\* Recommender.recommend(city, limit); expired: the cached entry is older than
\* cache_seconds; failed: the Overpass request raises
recommend(city, limit, expired, failed) ==
    LET city_clean == Strip(city)
        answer(kind, result, cache) ==
            /\ recKind' = kind
            /\ recResult' = result
            /\ recCache' = cache
    IN  /\ recCity' = city
        /\ recLimit' = limit
        /\ IF city_clean = ""
           THEN answer("fallback", fallback(city_clean, limit), recCache)
           ELSE IF city_clean \in DOMAIN recCache /\ ~expired
           THEN answer("cached", Slice(recCache[city_clean], limit), recCache)
           ELSE IF city_clean \notin CITY_CENTERS
           THEN answer("fallback", fallback(city_clean, limit), recCache)
           ELSE IF failed \/ OverpassPlaces(remote) = <<>>
           THEN answer("fallback", fallback(city_clean, limit), recCache)
           ELSE LET suggestions == Suggestions(RankedOverpass(remote), limit, <<>>)
                IN  IF suggestions = <<>>
                    THEN answer("fallback", fallback(city_clean, limit), recCache)
                    ELSE answer("fresh", suggestions,
                                Put(recCache, city_clean, suggestions))
        /\ UNCHANGED outsideRecommending

Recommend ==
    \E city \in Cities, limit \in Limits, expired \in BOOLEAN, failed \in BOOLEAN :
        recommend(city, limit, expired, failed)

\* PlaceFetcher.geocode_destination(destination); reply: the server's answer if
\* the lookup is sent
geocode_destination(destination, reply) ==
    /\ geoDest' = destination
    /\ geoReply' = reply
    /\ geoStatus' = "returned"
    /\ IF /\ destination \in DOMAIN geoCache
          /\ entry_is_fresh(geoCache[destination].cached_time, now)
       THEN /\ geoRequested' = FALSE
            /\ geoResult' = geoCache[destination].result
            /\ geoCache' = geoCache
       ELSE /\ geoRequested' = TRUE
            /\ IF LookupFails(reply)
               THEN /\ geoResult' = NoCoordinates
                    /\ geoCache' = geoCache
               ELSE /\ geoResult' = Coordinates(reply)
                    /\ geoCache' = Put(geoCache, destination,
                                       [cached_time |-> now, result |-> Coordinates(reply)])
    /\ now' = now
    /\ UNCHANGED outsideGeocoding

GeocodeDestination ==
    \E destination \in Destinations, reply \in GeocodeReplies :
        geocode_destination(destination, reply)

\* time passes between calls
Tick ==
    /\ now < MaxTime
    /\ now' = now + 1
    /\ UNCHANGED <<geoCache, geoDest, geoReply, geoRequested, geoResult, geoStatus>>
    /\ UNCHANGED outsideGeocoding

AddExpense == \E e \in PostedExpenses : add_expense(e.amount, e.paid_by, e.split_between)

RankPlaces == \E avoid_crowds \in BOOLEAN : rank_places(avoid_crowds)

\* the expense ledger and its settlement
InitLedgerIdle == InitSettle
InitRankingIdle == InitRankIdle /\ places = <<>> /\ InitFetched
InitScoringIdle == scorePlace = DefaultPlace /\ InitScoreIdle
InitFetchingIdle == remote = <<>> /\ InitFetchIdle
\* ensure_trip: "votes": {"destination": {}, "dates": {}}, "memberVotes": {}
InitVote ==
    /\ votes = [t \in VoteTypes |-> EmptyDict]
    /\ memberVotes = EmptyDict

\* Recommender.__init__: self._cache = {}
InitRecommend ==
    /\ recCache = EmptyDict
    /\ recResult = <<>>
    /\ recCity = ""
    /\ recLimit = 0
    /\ recKind = "none"

\* PlaceFetcher.__init__: self.cache = {}
InitGeocode ==
    /\ now = 0
    /\ geoCache = EmptyDict
    /\ geoDest = ""
    /\ geoReply = Reply(FALSE, <<>>)
    /\ geoRequested = FALSE
    /\ geoResult = NoCoordinates
    /\ geoStatus = "none"

Init ==
    /\ InitSettle /\ InitRankingIdle /\ InitScoringIdle /\ InitFetchingIdle /\ InitVote
    /\ InitRecommend
    /\ InitGeocode

Next ==
    \/ AddExpense
    \/ settle_expenses

Spec == Init /\ [][Next]_vars

\* the scorer, applied again and again to a list of freshly built places
InitRank ==
    /\ InitLedgerIdle
    /\ InitRankIdle /\ places \in PlaceLists /\ InitFetched
    /\ InitScoringIdle
    /\ InitFetchingIdle
    /\ InitVote
    /\ InitRecommend
    /\ InitGeocode

NextRank == RankPlaces

SpecRank == InitRank /\ [][NextRank]_vars

\* score_place applied, again and again, to one place
InitScore ==
    /\ InitLedgerIdle
    /\ InitRankingIdle
    /\ scorePlace \in FullPlaces /\ InitScoreIdle
    /\ InitFetchingIdle
    /\ InitVote
    /\ InitRecommend
    /\ InitGeocode

NextScore == score_place_call

SpecScore == InitScore /\ [][NextScore]_vars

\* the two fetchers, called again and again on what the servers hold
InitFetch ==
    /\ InitLedgerIdle
    /\ InitRankingIdle
    /\ InitScoringIdle
    /\ remote \in RemoteLists /\ InitFetchIdle
    /\ InitVote
    /\ InitRecommend
    /\ InitGeocode

NextFetch ==
    \/ FetchNearbyPlaces
    \/ fetch_overpass_places

SpecFetch == InitFetch /\ [][NextFetch]_vars

\* the votes of one trip
InitVoting ==
    /\ InitLedgerIdle
    /\ InitRankingIdle
    /\ InitScoringIdle
    /\ InitFetchingIdle
    /\ InitVote
    /\ InitRecommend
    /\ InitGeocode

NextVote == CastVote

SpecVote == InitVoting /\ [][NextVote]_vars

\* one recommender, asked again and again about what the Overpass server holds
InitRecommending ==
    /\ InitLedgerIdle
    /\ InitRankingIdle
    /\ InitScoringIdle
    /\ remote \in RemoteLists /\ InitFetchIdle
    /\ InitVote
    /\ InitRecommend
    /\ InitGeocode

NextRecommend == Recommend

SpecRecommend == InitRecommending /\ [][NextRecommend]_vars

\* one PlaceFetcher geocoding destinations as time passes
InitGeocoding ==
    /\ InitLedgerIdle
    /\ InitRankingIdle
    /\ InitScoringIdle
    /\ InitFetchingIdle
    /\ InitVote
    /\ InitRecommend
    /\ InitGeocode

NextGeocode ==
    \/ GeocodeDestination
    \/ Tick

SpecGeocode == InitGeocoding /\ [][NextGeocode]_vars

\* --------------------------------------------------- settlement properties
RECURSIVE Received(_, _)
Received(ts, p) ==
    IF ts = <<>> THEN 0
    ELSE (IF Head(ts).to_person = p THEN Head(ts).amount ELSE 0) + Received(Tail(ts), p)

RECURSIVE Sent(_, _)
Sent(ts, p) ==
    IF ts = <<>> THEN 0
    ELSE (IF Head(ts).from_person = p THEN Head(ts).amount ELSE 0) + Sent(Tail(ts), p)

RECURSIVE BalanceOf(_, _)
BalanceOf(bals, p) ==
    IF bals = <<>> THEN 0
    ELSE IF Head(bals).person = p THEN Head(bals).balance ELSE BalanceOf(Tail(bals), p)

RECURSIVE SumBalances(_)
SumBalances(bals) == IF bals = <<>> THEN 0 ELSE Head(bals).balance + SumBalances(Tail(bals))

NumCreditors(bals) == Cardinality({i \in 1..Len(bals) : bals[i].balance > Epsilon})
NumDebtors(bals) == Cardinality({i \in 1..Len(bals) : bals[i].balance < 0 - Epsilon})

Elems(s) == {s[i] : i \in 1..Len(s)}
HasDuplicate(s) == \E i, j \in 1..Len(s) : i < j /\ s[i] = s[j]

\* an Expense of the data model: positive amount, non-empty split list
WellFormed(exps) ==
    \A i \in 1..Len(exps) : exps[i].amount > 0 /\ exps[i].split_between # <<>>

\* C1: after calculate_settlements returns on a list of expenses, for every person
\* the transfers received minus the transfers sent equal that person's net balance
\* within 0.01.
C1_TransfersReproduceBalances ==
    (status = "settled" /\ WellFormed(engineInput)) =>
        \A p \in People :
            Abs((Received(transfers, p) - Sent(transfers, p)) - BalanceOf(balances, p)) <= Epsilon

\* C2: for an expense list whose split lists are all non-empty, the net balances
\* computed in step 1 sum to zero over all people.
C2_BalancesSumToZero ==
    status = "settled" => SumBalances(balances) = 0

\* a settled ledger with a payer inside their own split, a name listed twice in a
\* split, and balances that are not all zero
C2_Witness ==
    /\ status = "settled"
    /\ \E i \in 1..Len(engineInput) : engineInput[i].paid_by \in Elems(engineInput[i].split_between)
    /\ \E i \in 1..Len(engineInput) : HasDuplicate(engineInput[i].split_between)
    /\ \E i \in 1..Len(balances) : balances[i].balance # 0
    /\ SumBalances(balances) = 0

\* C3 as stated: the number of transfers is at most creditors + debtors - 1,
\* for every list of expenses.
C3_TransferCountOriginal ==
    (status = "settled" /\ WellFormed(engineInput)) =>
        Len(transfers) <= NumCreditors(balances) + NumDebtors(balances) - 1

\* C3 amended: with at least one creditor or debtor the number of transfers is at
\* most creditors + debtors - 1; with neither there is no transfer.
C3_TransferCount ==
    status = "settled" =>
        LET n == NumCreditors(balances) + NumDebtors(balances)
        IN  IF n = 0 THEN Len(transfers) = 0 ELSE Len(transfers) <= n - 1

\* one creditor and two debtors settled in exactly two transfers
C3_Witness ==
    /\ status = "settled"
    /\ NumCreditors(balances) = 1
    /\ NumDebtors(balances) = 2
    /\ Len(transfers) = 2

\* C4: settling the empty list gives no transfer, and so does settling a list in
\* which every person's balance is within 0.01 of zero.
C4_NothingToSettle ==
    /\ calculate_settlements(<<>>) = <<>>
    /\ status = "no_expenses" => transfers = <<>>
    /\ (status = "settled" /\ \A i \in 1..Len(balances) : Abs(balances[i].balance) <= Epsilon)
           => transfers = <<>>

\* two people who each paid half of a bill they share: nothing to transfer
C4_Witness ==
    /\ status = "settled"
    /\ Len(engineInput) = 2
    /\ engineInput[1].amount = engineInput[2].amount
    /\ engineInput[1].amount > 0
    /\ engineInput[1].paid_by # engineInput[2].paid_by
    /\ engineInput[1].split_between = engineInput[2].split_between
    /\ Elems(engineInput[1].split_between) = {engineInput[1].paid_by, engineInput[2].paid_by}
    /\ ~HasDuplicate(engineInput[1].split_between)
    /\ transfers = <<>>

\* C5: every expense handed to calculate_settlements has a positive amount and a
\* non-empty split list, because the endpoints reject any other expense first.
C5_EngineInputValidated ==
    engineCalled => WellFormed(engineInput)

C12_SingleExpenseExample ==
    (status = "settled" /\ engineInput = <<Expense(10000, "A", <<"A", "B", "C">>)>>) =>
        /\ Len(transfers) = 2
        /\ {transfers[1], transfers[2]} =
               { [from_person |-> "B", to_person |-> "A", amount |-> (10000 * Scale) \div 3],
                 [from_person |-> "C", to_person |-> "A", amount |-> (10000 * Scale) \div 3] }

\* that expense settled: balances A +66.67, B -33.33, C -33.33
C12_Witness ==
    /\ status = "settled"
    /\ engineInput = <<Expense(10000, "A", <<"A", "B", "C">>)>>
    /\ BalanceOf(balances, "A") = 2 * ((10000 * Scale) \div 3)
    /\ BalanceOf(balances, "B") = 0 - ((10000 * Scale) \div 3)
    /\ Len(transfers) = 2
    /\ transfers[1].from_person = "B"

RECURSIVE MaxAmt(_)
MaxAmt(list) ==
    IF list = <<>> THEN 0
    ELSE LET m == MaxAmt(Tail(list)) IN IF Head(list).amt >= m THEN Head(list).amt ELSE m

\* C14: in every iteration of the matching loop the creditor and the debtor chosen
\* have the largest remaining amount of their lists, and the transfer emitted is
\* the minimum of the two.
C14_LargestMatched ==
    (status = "settled" /\ WellFormed(engineInput)) =>
        /\ Len(transfers) = Len(matching) - 1
        /\ \A k \in 1..Len(transfers) :
               /\ matching[k].creditors[1].amt = MaxAmt(matching[k].creditors)
               /\ matching[k].debtors[1].amt = MaxAmt(matching[k].debtors)
               /\ transfers[k].to_person = matching[k].creditors[1].person
               /\ transfers[k].from_person = matching[k].debtors[1].person
               /\ transfers[k].amount =
                      Min(matching[k].creditors[1].amt, matching[k].debtors[1].amt)

\* C15: the matching loop ends, every iteration removing a creditor or a debtor
\* from its list, and no transfer is smaller than 0.01.
C15_LoopEndsNoTinyTransfer ==
    status = "settled" =>
        /\ Len(matching) >= 1
        /\ Len(transfers) = Len(matching) - 1
        /\ matching[Len(matching)].creditors = <<>> \/ matching[Len(matching)].debtors = <<>>
        /\ \A k \in 1..(Len(matching) - 1) :
               Len(matching[k + 1].creditors) + Len(matching[k + 1].debtors)
                   < Len(matching[k].creditors) + Len(matching[k].debtors)
        /\ \A k \in 1..Len(transfers) : transfers[k].amount >= Epsilon

\* an iteration drops a debtor whose remainder is positive but below 0.01,
\* and the loop ends with a creditor still unpaid
C15_Witness ==
    /\ status = "settled"
    /\ Len(transfers) >= 1
    /\ matching[Len(matching)].creditors # <<>>
    /\ \E k \in 1..Len(transfers) :
           /\ matching[k].debtors[1].amt - transfers[k].amount > 0
           /\ matching[k].debtors[1].amt - transfers[k].amount < Epsilon
           /\ Len(matching[k + 1].debtors) = Len(matching[k].debtors) - 1

\* C22: every transfer goes from a person with negative net balance to a person
\* with positive net balance, its sender differs from its receiver, and nobody
\* is the sender of one transfer and the receiver of another.
C22_DebtorsPayCreditors ==
    status = "settled" =>
        /\ \A k \in 1..Len(transfers) :
               /\ BalanceOf(balances, transfers[k].from_person) < 0
               /\ BalanceOf(balances, transfers[k].to_person) > 0
               /\ transfers[k].from_person # transfers[k].to_person
        /\ \A k, l \in 1..Len(transfers) :
               transfers[k].from_person # transfers[l].to_person

\* three transfers between two debtors and two creditors
C22_Witness ==
    /\ status = "settled"
    /\ Len(transfers) = 3
    /\ transfers[1].from_person # transfers[3].from_person
    /\ transfers[1].to_person # transfers[3].to_person
    /\ BalanceOf(balances, transfers[3].from_person) < 0
    /\ BalanceOf(balances, transfers[1].to_person) > 0

\* ------------------------------------------------------- ranking properties
IsPermutation(perm, n) ==
    /\ Len(perm) = n
    /\ \A k \in 1..n : \E i \in 1..n : perm[i] = k

\* C7: rank_places returns the places in non-decreasing crowd_score order when
\* avoid_crowds is true and in non-increasing order when it is false, each
\* crowd_score being the one computed for that place during the call.
C7_RankOrder ==
    rankStatus = "returned" =>
        /\ \A i \in 1..Len(places) : places[i].crowd_score = crowd_score(places[i])
        /\ \A i, j \in 1..Len(places) :
               i < j => IF avoidCrowds
                        THEN places[i].crowd_score <= places[j].crowd_score
                        ELSE places[i].crowd_score >= places[j].crowd_score

\* three places of three different scores that the call had to reorder
C7_Witness ==
    /\ rankStatus = "returned"
    /\ avoidCrowds
    /\ Len(places) = 3
    /\ places[1].crowd_score < places[2].crowd_score
    /\ places[2].crowd_score < places[3].crowd_score
    /\ rankPerm = <<3, 1, 2>>

\* C8: with distance_from_center >= 0 every score lies in [0, 0.85], and a place
\* at distance 0 that is a chain and a tourist attraction scores exactly 0.85.
C8_ScoreBounds ==
    rankStatus = "returned" =>
        \A i \in 1..Len(places) :
            places[i].distance_from_center >= 0 =>
                /\ 0 <= places[i].crowd_score
                /\ places[i].crowd_score <= 8500
                /\ (/\ places[i].distance_from_center = 0
                    /\ places[i].is_chain
                    /\ places[i].is_tourist_attraction) => places[i].crowd_score = 8500

\* both ends of the range in one ranked list
C8_Witness ==
    /\ rankStatus = "returned"
    /\ \E i \in 1..Len(places) :
           /\ places[i].distance_from_center = 0
           /\ places[i].is_chain
           /\ places[i].is_tourist_attraction
           /\ places[i].crowd_score = 8500
    /\ \E i \in 1..Len(places) :
           /\ places[i].distance_from_center > NORMALIZE_DISTANCE
           /\ places[i].crowd_score = 0

\* C9: for both values of avoid_crowds, places of equal crowd_score come out in
\* the relative order they had in the list given to the call.
C9_RankStable ==
    rankStatus = "returned" =>
        /\ IsPermutation(rankPerm, Len(rankInput))
        /\ Len(places) = Len(rankInput)
        /\ \A i \in 1..Len(places) : places[i] = score_place(rankInput[rankPerm[i]])
        /\ \A i, j \in 1..Len(places) :
               (i < j /\ places[i].crowd_score = places[j].crowd_score)
                   => rankPerm[i] < rankPerm[j]

\* a descending rank that moved a place past two different places of equal score
C9_Witness ==
    /\ rankStatus = "returned"
    /\ ~avoidCrowds
    /\ Len(places) = 3
    /\ places[2].crowd_score = places[3].crowd_score
    /\ places[2] # places[3]
    /\ places[1].crowd_score > places[2].crowd_score
    /\ rankPerm = <<3, 1, 2>>

\* C10: rank_places on an empty list returns an empty list and does not raise,
\* whatever avoid_crowds is.
C10_EmptyRank ==
    (rankStatus # "none" /\ rankInput = <<>>) =>
        /\ rankStatus = "returned"
        /\ places = <<>>

\* an empty list has been ranked
C10_Witness ==
    /\ rankStatus = "returned"
    /\ rankInput = <<>>
    /\ places = <<>>
    /\ rankPerm = <<>>

\* C13: whatever rank_places calls were made before on the list object, a call
\* with flag f leaves the list in the order, and with the scores, that a first
\* call with f on the list as it was fetched gives.
C13_RerankAsFirstRank ==
    rankStatus = "returned" =>
        /\ origin = rank_perm(fetched, avoidCrowds)
        /\ Len(places) = Len(fetched)
        /\ \A i \in 1..Len(places) : places[i] = score_place(fetched[origin[i]])

\* a list with two different places of equal score, reordered by an earlier call
\* and then ranked again in the other direction
C13_Witness ==
    /\ rankStatus = "returned"
    /\ reranked
    /\ avoidCrowds
    /\ Len(places) = 3
    /\ rankInput # ScoreAll(fetched)
    /\ rankInput # places
    /\ places[2].crowd_score = places[3].crowd_score
    /\ places[2] # places[3]
    /\ origin = <<2, 1, 3>>

SameFlags(p, q) ==
    /\ p.is_chain = q.is_chain
    /\ p.is_tourist_attraction = q.is_tourist_attraction

\* C16 as stated: of two places with the same flags the farther one has the
\* greater or equal distance score and crowd_score.
C16_FartherScoresHigher ==
    rankStatus = "returned" =>
        \A i, j \in 1..Len(places) :
            (/\ SameFlags(places[i], places[j])
             /\ places[i].distance_from_center > places[j].distance_from_center)
                => /\ distance_score(places[i]) >= distance_score(places[j])
                   /\ places[i].crowd_score >= places[j].crowd_score

\* C16 as the code has it: of two places with the same flags the farther one has
\* the smaller or equal distance score and crowd_score, and two places at or
\* beyond normalize_distance have distance score 0 and equal crowd_score.
C16_FartherScoresLower ==
    rankStatus = "returned" =>
        \A i, j \in 1..Len(places) :
            (/\ SameFlags(places[i], places[j])
             /\ places[i].distance_from_center > places[j].distance_from_center)
                => /\ distance_score(places[i]) <= distance_score(places[j])
                   /\ places[i].crowd_score <= places[j].crowd_score
                   /\ places[j].distance_from_center >= NORMALIZE_DISTANCE
                          => /\ distance_score(places[i]) = 0
                             /\ distance_score(places[j]) = 0
                             /\ places[i].crowd_score = places[j].crowd_score

\* three places with the same flags: at the center, at and beyond normalize_distance
C16_Witness ==
    /\ rankStatus = "returned"
    /\ Len(places) = 3
    /\ \E i, j, k \in 1..3 :
           /\ SameFlags(places[i], places[j])
           /\ SameFlags(places[j], places[k])
           /\ places[i].distance_from_center = 0
           /\ places[j].distance_from_center = NORMALIZE_DISTANCE
           /\ places[k].distance_from_center > NORMALIZE_DISTANCE
           /\ places[i].crowd_score > places[j].crowd_score
           /\ places[j].crowd_score = places[k].crowd_score

\* --------------------------------------------------- score_place properties
\* C19: score_place stores the computed score in place.crowd_score and returns
\* that same value, changes no other field of the place, and the result does not
\* depend on the crowd_score the place had before.
C19_ScoreStoredFrame ==
    scoreStatus = "returned" =>
        /\ scorePlace.crowd_score = scoreReturned
        /\ scoreReturned = crowd_score([scoreBefore EXCEPT !.crowd_score = 0])
        /\ scorePlace = [scoreBefore EXCEPT !.crowd_score = scoreReturned]
        /\ \A f \in DOMAIN scoreBefore \ {"crowd_score"} : scorePlace[f] = scoreBefore[f]

\* a place that carried another score before the call
C19_Witness ==
    /\ scoreStatus = "returned"
    /\ scoreBefore.crowd_score = 8500
    /\ scoreBefore.name = "Louvre"
    /\ scoreBefore.is_tourist_attraction
    /\ scoreBefore.distance_from_center = NORMALIZE_DISTANCE
    /\ scoreReturned = 2400
    /\ scorePlace.crowd_score = 2400

\* ---------------------------------------------------------- fetch properties
\* round(x, 5) of a non-negative coordinate given in millionths of a degree, in
\* hundred-thousandths
Round5(x) == (x + 5) \div 10

SameNameAndSpot(p, q) ==
    /\ Lower(p.name) = Lower(q.name)
    /\ Round5(p.lat) = Round5(q.lat)
    /\ Round5(p.lon) = Round5(q.lon)

\* the tags are of one of the five kinds the fetchers ask the servers for
Requested(tags) == category_from_tags_other(tags) # "other"

\* C11: the place list a fetch returns never holds two entries whose case-folded
\* names and coordinates rounded to 5 decimals coincide (here: of the entries
\* built from objects of the five requested kinds).
C11_NoDuplicatePlaces ==
    fetchCall # "none" =>
        \A i, j \in 1..Len(fetchResult) :
            (i < j /\ Requested(fetchSource[i].tags) /\ Requested(fetchSource[j].tags))
                => ~SameNameAndSpot(fetchResult[i], fetchResult[j])

FixedCategories == {"cafe", "restaurant", "museum", "park", "attraction", "other"}

\* C17: the category resolved from the raw tags is always one of cafe,
\* restaurant, museum, park, attraction, other; tags matching none of the five
\* give other.
C17_CategoryFixedSet ==
    fetchCall = "overpass" =>
        \A i \in 1..Len(fetchResult) :
            /\ fetchResult[i].category \in FixedCategories
            /\ fetchResult[i].category = category_from_tags_other(fetchSource[i].tags)

\* C18: a place built from raw geodata has is_tourist_attraction true exactly
\* when the record is tagged tourism=attraction or tourism=museum or carries a
\* historic tag (here: for the objects of the five requested kinds).
C18_TouristAttractionFlag ==
    fetchCall # "none" =>
        \A i \in 1..Len(fetchResult) :
            Requested(fetchSource[i].tags) =>
                (fetchResult[i].is_tourist_attraction
                    <=> \/ fetchSource[i].tags.tourism \in {"attraction", "museum"}
                        \/ fetchSource[i].tags.historic # None)

\* the categories of a categories argument
CategorySet(categories) == {categories[i] : i \in 1..Len(categories)}

\* C21: fetch_nearby_places returns only places whose category is one of the
\* requested categories, also when the call is answered from the cache.
C21_OnlyRequestedCategories ==
    fetchCall = "nearby" =>
        \A i \in 1..Len(fetchResult) :
            fetchResult[i].category \in CategorySet(fetchCategories)

\* ----------------------------------------------------------- vote properties
\* the members whose current vote of the type is the option
CurrentVoters(type_, option) ==
    {m \in DOMAIN memberVotes :
        type_ \in DOMAIN memberVotes[m] /\ memberVotes[m][type_] = option}

\* C20: after any sequence of votes, the stored count of every option of every
\* type is the number of members whose current vote of that type is that option,
\* and no stored count is 0 or less.
C20_CountsMatchCurrentVotes ==
    \A type_ \in VoteTypes :
        /\ \A option \in Options :
               Get(votes[type_], option, 0) = Cardinality(CurrentVoters(type_, option))
        /\ \A option \in DOMAIN votes[type_] : votes[type_][option] > 0

\* ------------------------------------------------------ recommend properties
\* the named places of the reply that recommend can suggest
RECURSIVE NumUsable(_)
NumUsable(found) ==
    IF found = <<>> THEN 0
    ELSE (IF UsableName(Head(found).name) THEN 1 ELSE 0) + NumUsable(Tail(found))

FallbackDestinations ==
    {CuratedParis[i].destination : i \in 1..Len(CuratedParis)}
    \cup {GenericFallback[i].destination : i \in 1..Len(GenericFallback)}

\* C23: a recommend call for a known city that answers with real places returns
\* min(limit, number of usable named places) suggestions, whatever limit earlier
\* cached calls used, and the cache never holds fallback suggestions.
C23_LimitHonoured ==
    /\ recKind \in {"fresh", "cached"} =>
           Len(recResult) = Min(recLimit, NumUsable(OverpassPlaces(remote)))
    /\ \A city \in DOMAIN recCache :
           \A i \in 1..Len(recCache[city]) :
               recCache[city][i].destination \notin FallbackDestinations

\* -------------------------------------------------------- geocode properties
\* C24: a geocode_destination call answers from the cache, sending no lookup,
\* exactly when an entry of the destination exists whose age is less than
\* cache_timeout; otherwise the lookup is sent, and a lookup that fails or finds
\* nothing returns None and leaves the cache as it was, while one that succeeds
\* returns the coordinates and stores them with the time of the call.
C24_GeocodeCache ==
    [][ now' = now =>
          LET d == geoDest'
              served == /\ d \in DOMAIN geoCache
                        /\ now - geoCache[d].cached_time < cache_timeout
          IN  /\ geoRequested' = ~served
              /\ served => /\ geoResult' = geoCache[d].result
                           /\ geoCache' = geoCache
              /\ (~served /\ LookupFails(geoReply')) =>
                     /\ geoResult' = NoCoordinates
                     /\ geoCache' = geoCache
              /\ (~served /\ ~LookupFails(geoReply')) =>
                     /\ geoResult' = Coordinates(geoReply')
                     /\ geoCache' = Put(geoCache, d,
                                        [cached_time |-> now, result |-> geoResult'])
      ]_vars

\* the entry of the destination had expired, the lookup was sent again and
\* failed: None was returned and the old entry is still the one in the cache
C24_Witness ==
    /\ geoStatus = "returned"
    /\ geoRequested
    /\ geoResult = NoCoordinates
    /\ geoReply = RequestError
    /\ geoDest \in DOMAIN geoCache
    /\ now - geoCache[geoDest].cached_time = cache_timeout

TypeOK ==
    /\ Len(expenses) <= MaxExpenses
    /\ status \in {"none", "added", "no_expenses", "error", "settled"}
    /\ resettled \in BOOLEAN
    /\ Len(places) <= MaxPlaces
    /\ rankStatus \in {"none", "returned", "raised"}
====
